---- MODULE Spec2Model ----
(***************************************************************************)
(* A model of proj2_nps.py: the JSON file cache, the two cached fetchers,  *)
(* the scraper, the flattening of a places result and the two-level        *)
(* interactive loop.                                                       *)
(*                                                                         *)
(* Python strings are sequences of one-character strings, so that lower(), *)
(* strip(), isnumeric() and int() are computed and not assumed.  URLs and  *)
(* page texts are sequences of string tokens, concatenated as the code     *)
(* concatenates them.  A dict is a function whose DOMAIN is its key set.   *)
(***************************************************************************)
EXTENDS Integers, Sequences, FiniteSets, TLC

VARIABLES
    pc,          \* position of __main__: "Start", "StateSelect", "SiteSelect", "Done", "Crashed"
    file,        \* project2.json: [exists, text]
    CACHE_DICT,  \* the global dict
    states_dict, \* __main__'s states_dict
    sites_list,  \* __main__'s sites_list
    x,           \* __main__'s exit flag
    last,        \* what the last step read, printed, selected and fetched
    flat         \* a call of make_nearby_instance_list: [input, raised, exc, out]

vars == <<pc, file, CACHE_DICT, states_dict, sites_list, x, last, flat>>

\* Largest number of sites a state page of the modelled site lists.
MaxSites == 2
\* Largest number of entries of a places result handed to the flattening.
MaxEntries == 2

---------------------------------------------------------------------------
(* Python string methods *)

UpperChars ==
    <<"A", "B", "C", "D", "E", "F", "G", "H", "I", "J", "K", "L", "M",
      "N", "O", "P", "Q", "R", "S", "T", "U", "V", "W", "X", "Y", "Z">>
LowerChars ==
    <<"a", "b", "c", "d", "e", "f", "g", "h", "i", "j", "k", "l", "m",
      "n", "o", "p", "q", "r", "s", "t", "u", "v", "w", "x", "y", "z">>

LowerChar(c) ==
    IF \E i \in 1..Len(UpperChars) : UpperChars[i] = c
    THEN LowerChars[CHOOSE i \in 1..Len(UpperChars) : UpperChars[i] = c]
    ELSE c

\* A lower() that is left out: the line is matched as typed.
Lower_unchanged(s) == s

\* str.lower()
Lower(s) == [i \in 1..Len(s) |-> LowerChar(s[i])]

DecimalChars == <<"0", "1", "2", "3", "4", "5", "6", "7", "8", "9">>
\* Characters with a Unicode numeric value: the decimal digits, and others
\* ("sup2" is SUPERSCRIPT TWO, "half" is VULGAR FRACTION ONE HALF).
NumericChars == {DecimalChars[i] : i \in 1..10} \cup {"sup2", "half"}

\* str.isnumeric(): non-empty and every character numeric
isnumeric(s) == Len(s) > 0 /\ \A i \in 1..Len(s) : s[i] \in NumericChars

DigitVal(c) == (CHOOSE i \in 1..10 : DecimalChars[i] = c) - 1

\* int(s) raises ValueError unless every character is a decimal digit
\* (for a string that passed isnumeric()).
IntRaises(s) == \E i \in 1..Len(s) : \A j \in 1..10 : DecimalChars[j] # s[i]

RECURSIVE int(_)
int(s) == IF s = <<>> THEN 0 ELSE 10 * int(SubSeq(s, 1, Len(s) - 1)) + DigitVal(s[Len(s)])

\* str(n) for n >= 0
RECURSIVE str(_)
str(n) == IF n < 10 THEN <<DecimalChars[n + 1]>> ELSE str(n \div 10) \o <<DecimalChars[(n % 10) + 1]>>

Whitespace == {" ", "\n"}

RECURSIVE lstrip(_, _)
lstrip(s, cs) == IF s # <<>> /\ s[1] \in cs THEN lstrip(Tail(s), cs) ELSE s

RECURSIVE rstrip(_, _)
rstrip(s, cs) ==
    IF s # <<>> /\ s[Len(s)] \in cs THEN rstrip(SubSeq(s, 1, Len(s) - 1), cs) ELSE s

\* str.strip(chars)
stripchars(s, cs) == rstrip(lstrip(s, cs), cs)

\* str.strip()
strip(s) == stripchars(s, Whitespace)

---------------------------------------------------------------------------
(* The cache file *)

\* dict: d[k] = v
Put(d, k, v) == [kk \in (DOMAIN d) \cup {k} |-> IF kk = k THEN v ELSE d[kk]]

\* json.dumps of a dict: the text is its set of "key": value members
dumps(cache) == {<<k, cache[k]>> : k \in DOMAIN cache}

\* json.loads of such a text
loads(text) == [k \in {m[1] : m \in text} |-> (CHOOSE m \in text : m[1] = k)[2]]

\* A load_cache that takes the except branch whatever the file holds.
load_cache_missing(f) == <<>>

load_cache(f) == IF f.exists THEN loads(f.text) ELSE <<>>

\* A save_cache that writes nothing.
save_cache_unwritten(cache, f) == f

save_cache(cache, f) == [exists |-> TRUE, text |-> dumps(cache)]

---------------------------------------------------------------------------
(* The servers: what requests.get can answer *)

base_url == <<"https://www.nps.gov">>

\* requests.get(url) answers 200 with the page, answers an HTTP error status
\* (a Response all the same: the code never calls raise_for_status), or raises.
PageOutcomes == {"ok", "http_error", "exception"}

\* The states the index page lists: display text, link target, sites.
\* Ohio lists sites 1..MaxSites, Guam lists none.
StateMenu ==
    << [text |-> <<"O", "h", "i", "o">>, href |-> <<"/state/oh/index.htm">>],
       [text |-> <<"G", "u", "a", "m">>, href |-> <<"/state/gu/index.htm">>] >>

SitePath(i) == <<"/site">> \o str(i) \o <<"/">>

\* The body nps.gov serves at a URL.
PageAt(url) ==
    IF url = base_url \o <<"/index.htm">> THEN <<"html", "index">>
    ELSE IF \E i \in 1..Len(StateMenu) : url = base_url \o StateMenu[i].href
    THEN <<"html", "state">> \o (CHOOSE h \in {StateMenu[i].href : i \in 1..Len(StateMenu)} :
                                    url = base_url \o h)
    ELSE IF \E i \in 1..MaxSites : url = base_url \o SitePath(i) \o <<"index.htm">>
    THEN <<"html", "site">> \o str(CHOOSE i \in 1..MaxSites :
                                    url = base_url \o SitePath(i) \o <<"index.htm">>)
    ELSE <<"html", "error">>

\* response.text
ResponseText(url, outcome) == IF outcome = "ok" THEN PageAt(url) ELSE <<"html", "error">>

\* soup.find('ul', class_="dropdown-menu SearchBar-keywordSearch") is not None
HasStateMenu(text) == text = <<"html", "index">>

\* soup.find('div', id="parkListResults") is not None
HasParkList(text) == Len(text) = 3 /\ text[2] = "state"

\* the href of the link of every h3 of the park list, in document order
ParkListHrefs(text) ==
    IF text[3] = "/state/oh/index.htm" THEN [i \in 1..MaxSites |-> SitePath(i)] ELSE <<>>

\* soup.find('div', class_='Hero-titleContainer clearfix') is not None
HasHero(text) == Len(text) >= 3 /\ text[2] = "site"

\* the texts get_site_instance extracts from a site page; sites 1 and 2 carry
\* the same name
HeroTitle(text) ==
    IF SubSeq(text, 3, Len(text)) \in {str(1), str(2)} THEN <<"F", "o", "r", "t">>
    ELSE <<"A", "r", "c", "h">> \o SubSeq(text, 3, Len(text))
HeroDesignation(text) == <<" ", "P", "a", "r", "k", "\n">>
PostalCode(text) == <<" ", "4", "3">> \o SubSeq(text, 3, Len(text)) \o <<" ">>
AddressLocality(text) == <<"T", "o", "w", "n">>
AddressRegion(text) == <<"O", "H">>
Tel(text) == <<"\n", "5", "5", "5", "\n">>

---------------------------------------------------------------------------
(* NationalSite *)

None == <<"None">>

NationalSite(category, name, address, zipcode, phone, url) ==
    [category |-> category, name |-> name, address |-> address, zipcode |-> zipcode,
     phone |-> stripchars(phone, {"\n"}), url |-> url]

---------------------------------------------------------------------------
(* The two cached fetchers.  net is the sequence of answers the servers    *)
(* give to the page requests of one step; the n-th request made reads      *)
(* net[n].  log is the record of the fetches made so far in the step.      *)

\* The mapping the file holds (the empty one while there is no file).
Store(f) ==
    IF f.exists THEN [k \in {m[1] : m \in f.text} |-> (CHOOSE m \in f.text : m[1] = k)[2]]
    ELSE <<>>

Requests(log) == Len(SelectSeq(log, LAMBDA e : e.calls > 0))

\* One fetch as the log keeps it: the key, whether the store on disk held it
\* and what it held, whether the dict consulted was the one just loaded, how
\* many requests went out and how the server answered ("none" without a
\* request), what was returned, whether the file changed, what it holds for
\* the key afterwards, and whether it holds what it held and the value
\* returned besides.
LogEntryOf(kind, key, cache, before, answer, raised, ret, wrote, after) ==
    [kind |-> kind, key |-> key,
     present |-> key \in DOMAIN before,
     stored |-> IF key \in DOMAIN before THEN before[key] ELSE None,
     fresh |-> cache = before,
     calls |-> IF answer = "none" THEN 0 ELSE 1,
     answer |-> answer, raised |-> raised, ret |-> ret, wrote |-> wrote,
     held |-> key \in DOMAIN after,
     kept |-> IF key \in DOMAIN after THEN after[key] ELSE None,
     full |-> after = Put(before, key, ret)]

LogEntry(kind, key, cache, f, answer, raised, ret, f2) ==
    LogEntryOf(kind, key, cache, Store(f), answer, raised, ret, f2 # f, Store(f2))

\* What a call hands back: whether it raised and what, the value returned,
\* the dict and the file it leaves, the fetches made.
Fetched(raised, exc, ret, cache, f, log) ==
    [raised |-> raised, exc |-> exc, ret |-> ret, cache |-> cache, file |-> f, log |-> log]

Raise(r, exc) == [r EXCEPT !.raised = TRUE, !.exc = exc, !.ret = None]

Return(r, v) == [r EXCEPT !.ret = v]

\* lines 101-103: return cache[url]
UsingCache(kind, key, cache, f, log) ==
    Fetched(FALSE, None, cache[key], cache, f,
            Append(log, LogEntry(kind, key, cache, f, "none", FALSE, cache[key], f)))

\* line 106: requests.get raises
FetchRaises(kind, key, cache, f, exc, log) ==
    Fetched(TRUE, exc, None, cache, f,
            Append(log, LogEntry(kind, key, cache, f, "exception", TRUE, None, f)))

\* lines 108-109: the dict c2 with the response in it is saved as file f2
Saved(kind, key, cache, c2, f, f2, answer, log) ==
    Fetched(FALSE, None, c2[key], c2, f2,
            Append(log, LogEntry(kind, key, cache, f, answer, FALSE, c2[key], f2)))

\* lines 106-109: cache[url] = response.text; save_cache(cache); return cache[url]
Fetching(kind, key, cache, c2, f, answer, log) ==
    Saved(kind, key, cache, c2, f, save_cache(c2, f), answer, log)

\* A page fetcher that sends the request without looking the URL up.
make_url_request_ignoring_cache(url, cache, f, net, log) ==
    IF net[Requests(log) + 1] = "exception"
    THEN FetchRaises("page", url, cache, f, <<"ConnectionError">>, log)
    ELSE Fetching("page", url, cache,
                  Put(cache, url, ResponseText(url, net[Requests(log) + 1])), f,
                  net[Requests(log) + 1], log)

make_url_request_using_cache(url, cache, f, net, log) ==
    IF url \in DOMAIN cache THEN UsingCache("page", url, cache, f, log)
    ELSE IF net[Requests(log) + 1] = "exception"
    THEN FetchRaises("page", url, cache, f, <<"ConnectionError">>, log)
    ELSE Fetching("page", url, cache,
                  Put(cache, url, ResponseText(url, net[Requests(log) + 1])), f,
                  net[Requests(log) + 1], log)

---------------------------------------------------------------------------
(* The scraper *)

\* lines 129-149: the NationalSite parsed from the page text r.ret
SiteFromPage(r) ==
    IF r.raised THEN r
    ELSE IF ~HasHero(r.ret) THEN Raise(r, <<"AttributeError">>)
    ELSE Return(r, NationalSite(strip(HeroDesignation(r.ret)), HeroTitle(r.ret),
                                AddressLocality(r.ret) \o <<",", " ">> \o AddressRegion(r.ret),
                                strip(PostalCode(r.ret)), Tel(r.ret), None))

get_site_instance(site_url, f, net, log) ==
    SiteFromPage(make_url_request_using_cache(site_url, load_cache(f), f, net, log))

RECURSIVE SitesLoop(_, _, _)

\* lines 181-182: the site r.ret, with its url, is appended to site_list
SiteAppended(hrefs, site_list, url, r, net) ==
    IF r.raised THEN r
    ELSE SitesLoop(Tail(hrefs),
                   Return(r, Append(site_list,
                                    NationalSite(r.ret.category, r.ret.name, r.ret.address,
                                                 r.ret.zipcode, r.ret.phone, url))),
                   net)

\* lines 178-180
SiteVisited(hrefs, acc, url, net) ==
    SiteAppended(hrefs, acc.ret, url, get_site_instance(url, acc.file, net, acc.log), net)

\* lines 175-184: the loop over the headings still to visit; acc is the state
\* so far, acc.ret the site_list built so far
SitesLoop(hrefs, acc, net) ==
    IF hrefs = <<>> THEN acc
    ELSE SiteVisited(hrefs, acc, base_url \o Head(hrefs) \o <<"index.htm">>, net)

\* lines 170-184
SitesFromPage(r, net) ==
    IF r.raised THEN r
    ELSE IF ~HasParkList(r.ret) THEN Raise(r, <<"AttributeError">>)
    ELSE SitesLoop(ParkListHrefs(r.ret), Return(r, <<>>), net)

get_sites_for_state(url, f, net, log) ==
    SitesFromPage(make_url_request_using_cache(url, load_cache(f), f, net, log), net)

\* lines 92-96: the dict filled from the items of the state menu
RECURSIVE StateDictLoop(_, _)
StateDictLoop(items, state_dict) ==
    IF items = <<>> THEN state_dict
    ELSE StateDictLoop(Tail(items),
                       Put(state_dict, Lower(Head(items).text), base_url \o Head(items).href))

\* lines 89-97
StatesFromPage(r) ==
    IF r.raised THEN r
    ELSE IF ~HasStateMenu(r.ret) THEN Raise(r, <<"AttributeError">>)
    ELSE Return(r, StateDictLoop(StateMenu, <<>>))

build_state_url_dict(f, net, log) ==
    StatesFromPage(make_url_request_using_cache(base_url \o <<"/index.htm">>, load_cache(f),
                                                f, net, log))

---------------------------------------------------------------------------
(* JSON values of a places result: a string or null *)

Str(s) == [type |-> "str", s |-> s]
Null == [type |-> "null", s |-> <<>>]

FieldNames == {"group_sic_code_name", "group_sic_code_name_ext", "address", "city"}

\* The values the modelled API gives each sub-field when it gives it at all.
FieldVals(k) ==
    CASE k = "group_sic_code_name" -> {Null, Str(<<" ">>), Str(<<" ", "F", " ">>)}
      [] k = "group_sic_code_name_ext" -> {Str(<<" ">>), Str(<<"G">>)}
      [] k = "address" -> {Null, Str(<<" ">>), Str(<<"A", " ">>)}
      [] k = "city" -> {Str(<<" ">>), Str(<<"C">>)}

\* Every fields object: any subset of the sub-fields, each with one of its values.
FieldDicts ==
    UNION {{g \in [D -> UNION {FieldVals(k) : k \in FieldNames}] : \A k \in D : g[k] \in FieldVals(k)} :
           D \in SUBSET FieldNames}

\* Every entry: named with a fields object, named without one, or unnamed.
Entries ==
    {[name |-> <<"N">>, fields |-> g] : g \in FieldDicts}
        \cup {[name |-> <<"N">>]} \cup {[fields |-> [address |-> Str(<<"A", " ">>)]]}

\* The places results the API answers in the interactive runs.
ApiDocs ==
    << [searchResults |->
            << [name |-> <<"I", "n", "n">>,
                fields |-> [group_sic_code_name |-> Str(<<" ">>)]],
               [name |-> <<"Z", "o", "o">>,
                fields |-> [group_sic_code_name_ext |-> Str(<<"G">>), address |-> Null,
                            city |-> Str(<<" ">>)]] >>],
       [searchResults |->
            << [name |-> <<"B", "a", "r">>, fields |-> [address |-> Str(<<"A", " ">>)]] >>] >>

\* What requests.get(url, params).json() gives: a places result, the JSON body
\* of an HTTP error answer, or an exception (no connection, or a body that is
\* not JSON).
ApiOutcomes == {<<"ok", j>> : j \in 1..Len(ApiDocs)} \cup {<<"http_error", 0>>, <<"exception", 0>>}

ApiJson(api) ==
    IF api[1] = "ok" THEN ApiDocs[api[2]] ELSE [info |-> [statuscode |-> 403]]

---------------------------------------------------------------------------
(* The places lookup *)

\* A places lookup that returns the response without saving the cache.
PlacesFromCache_unsaved(key, cache_file, f, api, log) ==
    IF key \in DOMAIN cache_file THEN UsingCache("api", key, cache_file, f, log)
    ELSE IF api[1] = "exception"
    THEN FetchRaises("api", key, cache_file, f, <<"RequestException">>, log)
    ELSE Saved("api", key, cache_file, Put(cache_file, key, ApiJson(api)), f, f, api[1], log)

\* lines 208-216, with the dict just loaded
PlacesFromCache(key, cache_file, f, api, log) ==
    IF key \in DOMAIN cache_file THEN UsingCache("api", key, cache_file, f, log)
    ELSE IF api[1] = "exception"
    THEN FetchRaises("api", key, cache_file, f, <<"RequestException">>, log)
    ELSE Fetching("api", key, cache_file, Put(cache_file, key, ApiJson(api)), f, api[1], log)

make_request_with_cache_api(url, site_object, f, api, log) ==
    PlacesFromCache(site_object.name, load_cache(f), f, api, log)

get_nearby_places(site_object, f, api, log) ==
    make_request_with_cache_api(<<"http://www.mapquestapi.com/search/v2/radius">>,
                                site_object, f, api, log)

---------------------------------------------------------------------------
(* Flattening a places result *)

NearbyPlace(name, category, street_address, city_name) ==
    [name |-> name, category |-> category, street_address |-> street_address,
     city_name |-> city_name]

NoCategory == <<"no category">>
NoAddress == <<"no address">>
NoCity == <<"no city">>

\* member['fields'][k].strip() raises: no fields, no k, or a value without strip()
StripRaises(member, k) ==
    \/ "fields" \notin DOMAIN member
    \/ k \notin DOMAIN member.fields
    \/ member.fields[k].type # "str"

\* member['fields'][k].strip()
Stripped(member, k) == strip(member.fields[k].s)

\* if v == '': v = sentinel
OrSentinel(v, sentinel) == IF v = <<>> THEN sentinel ELSE v

\* lines 274-286: try: v = member['fields'][k].strip(); if v == '': v = sentinel
\*                except: v = sentinel
StrippedOr(member, k, sentinel) ==
    IF StripRaises(member, k) THEN sentinel ELSE OrSentinel(Stripped(member, k), sentinel)

\* lines 267-272: the except branch reads the second field unguarded
CategoryRaises(member) ==
    StripRaises(member, "group_sic_code_name") /\ StripRaises(member, "group_sic_code_name_ext")

Category(member) ==
    IF ~StripRaises(member, "group_sic_code_name")
    THEN OrSentinel(Stripped(member, "group_sic_code_name"), NoCategory)
    ELSE Stripped(member, "group_sic_code_name_ext")

Flat(raised, exc, out) == [raised |-> raised, exc |-> exc, out |-> out]

RECURSIVE FlattenLoop(_, _)

\* lines 265-289: one entry
FlattenMember(member, rest, nearby_instance_list) ==
    IF "name" \notin DOMAIN member THEN Flat(TRUE, <<"KeyError">>, nearby_instance_list)
    ELSE IF CategoryRaises(member) THEN Flat(TRUE, <<"KeyError">>, nearby_instance_list)
    ELSE FlattenLoop(rest,
                     Append(nearby_instance_list,
                            NearbyPlace(member.name, Category(member),
                                        StrippedOr(member, "address", NoAddress),
                                        StrippedOr(member, "city", NoCity))))

FlattenLoop(members, nearby_instance_list) ==
    IF members = <<>> THEN Flat(FALSE, None, nearby_instance_list)
    ELSE FlattenMember(Head(members), Tail(members), nearby_instance_list)

make_nearby_instance_list(nearby_dict) ==
    IF "searchResults" \notin DOMAIN nearby_dict THEN Flat(TRUE, <<"KeyError">>, <<>>)
    ELSE FlattenLoop(nearby_dict.searchResults, <<>>)

---------------------------------------------------------------------------
(* __main__ *)

\* The lines typed at the prompts.
Inputs ==
    { <<"e", "x", "i", "t">>, <<"E", "x", "i", "T">>,
      <<"b", "a", "c", "k">>, <<"B", "a", "c", "K">>,
      <<"o", "h", "i", "o">>, <<"O", "h", "i", "o">>, <<"O", "H", "I", "O">>,
      <<"G", "U", "A", "M">>, <<"i", "o", "w", "a">>,
      <<"-", "1">>, <<"0", "1">>, <<"sup2">> }
        \cup {str(k) : k \in 0..(MaxSites + 1)}

\* The answers the servers give to the page requests of one step at the state
\* prompt (the state page and every site page) and elsewhere (one page).  A
\* step ends at the first answer that is not a page (the request raises, or
\* the parse of the error body does), so one such answer a step is all a
\* step can read.
Nets ==
    {net \in [1..(MaxSites + 1) -> PageOutcomes] :
        Cardinality({i \in 1..(MaxSites + 1) : net[i] # "ok"}) <= 1}
Nets1 == [1..1 -> PageOutcomes]

\* What a step did: where the loop was, the line read, what was printed
\* ("list", "places", "error_state", "error_input", or "raise" for a
\* traceback), the position in sites_list of the site selected (0: none),
\* the exception raised, the fetches made.
Step(from, input, out, selected, exc, log) ==
    [from |-> from, input |-> input, out |-> out, selected |-> selected, exc |-> exc,
     log |-> log]

NoStep == Step("Start", <<>>, "none", 0, None, <<>>)

\* A call of make_nearby_instance_list: its argument and what came of it.
FlatOf(nearby_dict, done, r) ==
    [input |-> nearby_dict, done |-> done, raised |-> r.raised, exc |-> r.exc, out |-> r.out]

NoFlat == FlatOf([searchResults |-> <<>>], FALSE, Flat(FALSE, None, <<>>))

FlatCall(nearby_dict) == FlatOf(nearby_dict, TRUE, make_nearby_instance_list(nearby_dict))

Init ==
    /\ pc = "Start"
    /\ file = [exists |-> FALSE, text |-> {}]
    /\ CACHE_DICT = <<>>
    /\ states_dict = <<>>
    /\ sites_list = <<>>
    /\ x = 0
    /\ last = NoStep
    /\ flat = NoFlat

\* The state a step leaves.
Commit(pcv, f, cache, sd, sl, xv, lastv, flatv) ==
    /\ pc' = pcv
    /\ file' = f
    /\ CACHE_DICT' = cache
    /\ states_dict' = sd
    /\ sites_list' = sl
    /\ x' = xv
    /\ last' = lastv
    /\ flat' = flatv

\* a traceback ends the run
Crash(from, input, selected, r) ==
    Commit("Crashed", r.file, r.cache, states_dict, sites_list, x,
           Step(from, input, "raise", selected, r.exc, r.log), NoFlat)

\* a step that fetches nothing
NoFetch(pcv, xv, input, out) ==
    Commit(pcv, file, CACHE_DICT, states_dict, sites_list, xv,
           Step(pc, input, out, 0, None, <<>>), NoFlat)

\* line 295 done: r is what build_state_url_dict handed back; x = 0
Started(r) ==
    IF r.raised THEN Crash("Start", <<>>, 0, r)
    ELSE Commit("StateSelect", r.file, r.cache, r.ret, sites_list, 0,
                Step("Start", <<>>, "none", 0, None, r.log), NoFlat)

\* line 295
Start ==
    /\ pc = "Start"
    /\ \E net \in Nets1 : Started(build_state_url_dict(file, net, <<>>))

\* lines 304-313: r is what get_sites_for_state handed back
Listed(input, r) ==
    IF r.raised THEN Crash("StateSelect", input, 0, r)
    ELSE Commit("SiteSelect", r.file, r.cache, states_dict, r.ret, x,
                Step("StateSelect", input, "list", 0, None, r.log), NoFlat)

\* lines 300-307, for the lower-cased line
StateChosen(state, input) ==
    IF state = <<"e", "x", "i", "t">> THEN NoFetch("Done", x, input, "none")
    ELSE IF state \in DOMAIN states_dict
    THEN \E net \in Nets : Listed(input, get_sites_for_state(states_dict[state], file, net, <<>>))
    ELSE NoFetch("StateSelect", x, input, "error_state")

\* lines 298-313: one line read at the state prompt
StatePrompt(input) ==
    /\ pc = "StateSelect"
    /\ StateChosen(Lower(input), input)

\* sites_list[i] for a Python index: the position read, 0 for IndexError
PyIndex(seq, i) ==
    IF 0 <= i /\ i < Len(seq) THEN i + 1
    ELSE IF i < 0 /\ -i <= Len(seq) THEN Len(seq) + i + 1
    ELSE 0

\* An outer loop that does not test x after the inner loop.
AfterSiteLoop_unchecked(xv) == "StateSelect"

\* lines 344-345, after the inner loop is left
AfterSiteLoop(xv) == IF xv = 1 THEN "Done" ELSE "StateSelect"

\* line 325: the test that lets a number select a site
InRange(n, sl) == n <= Len(sl)

\* lines 329-335: fl is the call of make_nearby_instance_list
Shown(input, pos, cache, r2, fl) ==
    IF fl.raised
    THEN Commit("Crashed", r2.file, cache, states_dict, sites_list, x,
                Step("SiteSelect", input, "raise", pos, fl.exc, r2.log), fl)
    ELSE Commit("SiteSelect", r2.file, cache, states_dict, sites_list, x,
                Step("SiteSelect", input, "places", pos, None, r2.log), fl)

\* lines 328-329: r2 is what get_nearby_places handed back; CACHE_DICT is
\* still the dict get_site_instance loaded
Looked(input, pos, cache, r2) ==
    IF r2.raised THEN Crash("SiteSelect", input, pos, [r2 EXCEPT !.cache = cache])
    ELSE Shown(input, pos, cache, r2, FlatCall(r2.ret))

\* lines 326-328: r1 is what get_site_instance handed back
Detailed(input, pos, r1, api) ==
    IF r1.raised THEN Crash("SiteSelect", input, pos, r1)
    ELSE Looked(input, pos, r1.cache, get_nearby_places(r1.ret, r1.file, api, r1.log))

\* line 326: sites_list[int(option) - 1], at position pos
Selected(input, pos) ==
    IF pos = 0
    THEN Crash("SiteSelect", input, 0,
               Fetched(TRUE, <<"IndexError">>, None, CACHE_DICT, file, <<>>))
    ELSE \E net \in Nets1, api \in ApiOutcomes :
            Detailed(input, pos, get_site_instance(sites_list[pos].url, file, net, <<>>), api)

\* lines 324-338, for a line that is numeric
Numbered(option, input) ==
    IF IntRaises(option)
    THEN Crash("SiteSelect", input, 0,
               Fetched(TRUE, <<"ValueError">>, None, CACHE_DICT, file, <<>>))
    ELSE IF InRange(int(option), sites_list)
    THEN Selected(input, PyIndex(sites_list, int(option) - 1))
    ELSE NoFetch("SiteSelect", x, input, "error_input")

\* lines 318-345, for the lower-cased line
OptionChosen(option, input) ==
    IF option = <<"b", "a", "c", "k">> THEN NoFetch(AfterSiteLoop(x), x, input, "none")
    ELSE IF option = <<"e", "x", "i", "t">> THEN NoFetch(AfterSiteLoop(1), 1, input, "none")
    ELSE IF isnumeric(option) THEN Numbered(option, input)
    ELSE NoFetch("SiteSelect", x, input, "error_input")

\* lines 316-345: one line read at the site prompt
SitePrompt(input) ==
    /\ pc = "SiteSelect"
    /\ OptionChosen(Lower(input), input)

\* The script is run again: the module globals are rebuilt, the file stays.
Restart ==
    /\ pc \in {"Done", "Crashed"}
    /\ Commit("Start", file, <<>>, <<>>, <<>>, 0, NoStep, NoFlat)

Next ==
    \/ Start
    \/ \E input \in Inputs : StatePrompt(input)
    \/ \E input \in Inputs : SitePrompt(input)
    \/ Restart

Spec == Init /\ [][Next]_vars

---------------------------------------------------------------------------
(* make_nearby_instance_list on its own: every places result of up to      *)
(* MaxEntries entries is handed to it once.                                *)

PlacesResults ==
    {[searchResults |-> m] : m \in UNION {[1..n -> Entries] : n \in 0..MaxEntries}}

InitFlat ==
    /\ pc = "Start"
    /\ file = [exists |-> FALSE, text |-> {}]
    /\ CACHE_DICT = <<>>
    /\ states_dict = <<>>
    /\ sites_list = <<>>
    /\ x = 0
    /\ last = NoStep
    /\ \E d \in PlacesResults : flat = FlatOf(d, FALSE, Flat(FALSE, None, <<>>))

Flatten ==
    /\ ~flat.done
    /\ flat' = FlatCall(flat.input)
    /\ UNCHANGED <<pc, file, CACHE_DICT, states_dict, sites_list, x, last>>

NextFlat == Flatten

SpecFlat == InitFlat /\ [][NextFlat]_vars

---------------------------------------------------------------------------
(* Properties *)

ExitLines == {<<"e", "x", "i", "t">>, <<"E", "x", "i", "T">>}
BackLines == {<<"b", "a", "c", "k">>, <<"B", "a", "c", "K">>}
OhioLines == {<<"o", "h", "i", "o">>, <<"O", "h", "i", "o">>, <<"O", "H", "I", "O">>}
GuamLines == {<<"G", "U", "A", "M">>}
OhioURL == <<"https://www.nps.gov", "/state/oh/index.htm">>
GuamURL == <<"https://www.nps.gov", "/state/gu/index.htm">>
SiteURL(i) == <<"https://www.nps.gov", "/site">> \o str(i) \o <<"/", "index.htm">>

LogOf(step) == {step.log[i] : i \in 1..Len(step.log)}

\* C1: at the site prompt, with N sites listed, the lines "0" and "N+1" are
\* rejected (the error is printed, nothing is fetched, no site is selected,
\* the loop stays at the site prompt), the line "k" for 1 <= k <= N selects
\* the k-th site listed, and a line that is not numeric (and is neither back
\* nor exit) is rejected without a traceback.
C1_SelectionRange ==
    last.from = "SiteSelect" =>
        /\ last.input \in {str(0), str(Len(sites_list) + 1)} =>
               /\ last.out = "error_input"
               /\ last.selected = 0
               /\ last.log = <<>>
               /\ pc = "SiteSelect"
        /\ \A k \in 1..Len(sites_list) : last.input = str(k) => last.selected = k
        /\ last.input \in {<<"-", "1">>, <<"i", "o", "w", "a">>, <<"o", "h", "i", "o">>} =>
               last.out = "error_input" /\ pc = "SiteSelect"

\* C2: a fetch of a key the cache store holds (a page by its URL, a places
\* result by the site name) returns the stored value, sends no request and
\* leaves the cache file as it was.
C2_HitReturnsStored ==
    \A e \in LogOf(last) :
        e.present => e.ret = e.stored /\ e.calls = 0 /\ ~e.raised /\ ~e.wrote

C2_Witness ==
    /\ \E e \in LogOf(last) : e.present /\ e.kind = "page"
    /\ \E e \in LogOf(last) : e.present /\ e.kind = "api"

\* C3: a fetch of a key the cache store does not hold sends exactly one
\* request; when the request returns, its result is stored under the key, the
\* file then holds everything it held and that value besides, and the value
\* is returned.  Every fetch of a later step for a key the file holds sends no
\* request and returns the value the file holds.
C3_MissLoadsOnceThenHits ==
    [][ /\ \A e \in LogOf(last') :
              ~e.present =>
                  /\ e.calls = 1
                  /\ ~e.raised =>
                         /\ e.wrote
                         /\ e.held /\ e.kept = e.ret
                         /\ e.full
                         /\ e.key \in DOMAIN Store(file') /\ Store(file')[e.key] = e.ret
        /\ \A e \in LogOf(last') :
              e.key \in DOMAIN Store(file) => e.calls = 0 /\ e.ret = Store(file)[e.key] ]_vars

C3_Witness ==
    /\ \E e \in LogOf(last) : ~e.present /\ ~e.raised /\ e.kind = "api"
    /\ \E e \in LogOf(last) : e.present /\ e.kind = "page"

\* C6: "exit" in any letter case ends the program at the state prompt and at
\* the site prompt alike; "back" at the site prompt leads to the state prompt
\* and never ends the program, whatever was typed before.
C6_ExitAndBack ==
    /\ last.from \in {"StateSelect", "SiteSelect"} /\ last.input \in ExitLines => pc = "Done"
    /\ last.from = "SiteSelect" /\ last.input \in BackLines => pc = "StateSelect"
    /\ pc = "Done" => last.input \in ExitLines

C6_Witness ==
    /\ pc = "Done"
    /\ last.from = "SiteSelect"
    /\ last.input = <<"E", "x", "i", "T">>

\* C7: no step removes a key from the cache file or changes the value under
\* a key, and every request of a step is sent for a key that was looked up,
\* and not found, in the dict loaded from the file as it was at that moment.
C7_WriteOnceGrowOnly ==
    [][ /\ file.exists => file'.exists
        /\ \A k \in DOMAIN Store(file) :
              k \in DOMAIN Store(file') /\ Store(file')[k] = Store(file)[k]
        /\ \A e \in LogOf(last') : e.calls > 0 => e.fresh /\ ~e.present ]_vars

C7_Witness ==
    /\ \E e \in LogOf(last) : e.wrote /\ e.kind = "api"
    /\ Cardinality(DOMAIN Store(file)) >= 4

\* C8: a request that fails (the server answers an HTTP error, or the request
\* raises) is sent once, raises to the caller, and leaves no entry for its
\* key in the cache file.
C8_FailedFetchNotStored ==
    \A e \in LogOf(last) :
        e.answer \in {"http_error", "exception"} =>
            e.calls = 1 /\ e.raised /\ ~e.wrote /\ ~e.held

\* C9: at the state prompt every letter-casing of a listed state name leads
\* to the fetch of that state's URL and, unless a fetch or a parse raises, to
\* the site prompt with that state's sites listed; a line that is neither
\* exit nor a listed state name prints the error, fetches nothing and leaves
\* the loop at the state prompt.
C9_StateNameAnyCase ==
    last.from = "StateSelect" =>
        /\ last.input \in OhioLines =>
               /\ last.log # <<>> /\ last.log[1].key = OhioURL
               /\ \/ pc = "Crashed" /\ last.out = "raise"
                  \/ /\ pc = "SiteSelect" /\ last.out = "list"
                     /\ Len(sites_list) = MaxSites
                     /\ \A i \in 1..MaxSites : sites_list[i].url = SiteURL(i)
        /\ last.input \in GuamLines =>
               /\ last.log # <<>> /\ last.log[1].key = GuamURL
               /\ \/ pc = "Crashed" /\ last.out = "raise"
                  \/ pc = "SiteSelect" /\ last.out = "list" /\ sites_list = <<>>
        /\ last.input \notin (ExitLines \cup OhioLines \cup GuamLines) =>
               last.out = "error_state" /\ last.log = <<>> /\ pc = "StateSelect"

C9_Witness ==
    /\ last.from = "StateSelect"
    /\ last.input = <<"O", "H", "I", "O">>
    /\ pc = "SiteSelect"
    /\ Len(sites_list) = MaxSites

\* C10: at the site prompt the detail-page URL of every site listed is a key
\* of the cache file; a selection reads the detail page from the cache and
\* sends at most one request, the places request, and none when the site's
\* name is a key of the cache file.
C10_DetailPagesCached ==
    /\ pc = "SiteSelect" => \A i \in 1..Len(sites_list) : sites_list[i].url \in DOMAIN Store(file)
    /\ last.from = "SiteSelect" /\ last.selected > 0 =>
           /\ last.log[1].kind = "page"
           /\ last.log[1].key = sites_list[last.selected].url
           /\ last.log[1].present /\ last.log[1].calls = 0
           /\ Requests(last.log) <= 1
           /\ \A e \in LogOf(last) : e.calls > 0 => e.kind = "api" /\ ~e.present
           /\ \A e \in LogOf(last) : e.kind = "api" /\ e.present => Requests(last.log) = 0

C10_Witness ==
    /\ last.from = "SiteSelect"
    /\ last.selected = MaxSites
    /\ last.input = str(MaxSites)
    /\ \E e \in LogOf(last) : e.kind = "api" /\ e.present
    /\ pc = "SiteSelect"

\* The sub-field k of an entry is absent or blank.
AbsentOrBlank(member, k) ==
    \/ "fields" \notin DOMAIN member
    \/ k \notin DOMAIN member.fields
    \/ member.fields[k].type # "str"
    \/ strip(member.fields[k].s) = <<>>

Named(d) == \A i \in 1..Len(d.searchResults) : "name" \in DOMAIN d.searchResults[i]

\* C4: flattening a places result whose entries all have a name never raises,
\* and an entry with both category fields absent or blank gets the category
\* "no category".
C4_CategoryFallback ==
    flat.done /\ Named(flat.input) =>
        /\ ~flat.raised
        /\ Len(flat.out) = Len(flat.input.searchResults)
        /\ \A i \in 1..Len(flat.out) :
              AbsentOrBlank(flat.input.searchResults[i], "group_sic_code_name")
                  /\ AbsentOrBlank(flat.input.searchResults[i], "group_sic_code_name_ext")
              => flat.out[i].category = NoCategory

\* C5: flattening a places result whose entries all have a name gives one
\* Place an entry, in the order of the entries; an entry without an address
\* (or with a blank one) gets "no address", an entry without a city (or with
\* a blank one) gets "no city".
C5_AddressCityFallback ==
    flat.done /\ Named(flat.input) =>
        /\ Len(flat.out) = Len(flat.input.searchResults)
        /\ \A i \in 1..Len(flat.out) :
              /\ flat.out[i].name = flat.input.searchResults[i].name
              /\ AbsentOrBlank(flat.input.searchResults[i], "address")
                     => flat.out[i].street_address = NoAddress
              /\ AbsentOrBlank(flat.input.searchResults[i], "city")
                     => flat.out[i].city_name = NoCity

====
